---- MODULE Spec2Model ----
(***************************************************************************)
(* A model of src/tetris_web/script.js: the board, the falling piece, the  *)
(* score, and the handlers that change them (the timer tick gameLoop and   *)
(* the keydown listener).  Rendering (draw, drawBoard, drawPiece,          *)
(* drawBlock) reads the state and changes nothing, so it has no action.    *)
(*                                                                         *)
(* JavaScript arrays are sequences: the element at JS index i is the       *)
(* element i+1 of the sequence.  JavaScript values that the code compares  *)
(* with === (board cells, EMPTY, colors) are records tagged with their     *)
(* type, so that a number never equals a string.                           *)
(***************************************************************************)
EXTENDS Integers, Sequences, FiniteSets, TLC

VARIABLES
    board,        \* let board: array of rows of cells
    score,        \* let score
    currentPiece, \* let currentPiece: {shape, color}
    currentX,     \* let currentX
    currentY,     \* let currentY
    textContent,  \* scoreElement.textContent as last written by the script
    alerts,       \* what each alert() of the last handler run saw: the board
                  \* and the score at the moment of the call
    threw,        \* the last handler run ended with an uncaught exception
    loop,         \* "main": line 172 not run yet; "timer": a setTimeout(gameLoop)
                  \* is pending; "dead": gameLoop threw before re-arming the timer
    event,        \* the handler that ran last ("load" before any)
    plan,         \* the input schedule the environment follows (see Plans)
    pos,          \* the number of events handled so far (Spec)
    games,        \* the number of game overs so far, counted up to MaxGames
    probe         \* the result of the last direct application of a function
                  \* (only used by SpecProbe)

vars == <<board, score, currentPiece, currentX, currentY, textContent,
          alerts, threw, loop, event, plan, pos, games, probe>>

----------------------------------------------------------------------------
(* Constants of the program *)

ROWS == 20

COLS == 10

(* JavaScript values *)
Num(n) == [type |-> "number", num |-> n, str |-> ""]

Str(s) == [type |-> "string", num |-> 0, str |-> s]

Undefined == [type |-> "undefined", num |-> 0, str |-> ""]

EMPTY == Num(0)

(* One literal of the PIECES array.  depth is the nesting of the literal:  *)
(* 1 for a flat array of numbers (the I piece), 2 for an array of rows.    *)
Flat(cells) == [depth |-> 1, cells |-> cells]

Nested(rows) == [depth |-> 2, cells |-> rows]

PIECES ==
    << Flat(<<1, 1, 1, 1>>),                        \* I
       Nested(<< <<1, 1, 1>>, <<0, 1, 0>> >>),      \* T
       Nested(<< <<1, 1>>, <<1, 1>> >>),            \* O
       Nested(<< <<1, 1, 0>>, <<0, 1, 1>> >>),      \* S
       Nested(<< <<0, 1, 1>>, <<1, 1, 0>> >>),      \* Z
       Nested(<< <<1, 0, 0>>, <<1, 1, 1>> >>),      \* L
       Nested(<< <<0, 0, 1>>, <<1, 1, 1>> >>) >>    \* J

----------------------------------------------------------------------------
(* Number.prototype.toString(radix) for an integer *)

Digits == <<"0", "1", "2", "3", "4", "5", "6", "7", "8", "9",
            "a", "b", "c", "d", "e", "f">>

RECURSIVE NumberToString(_, _)
NumberToString(n, radix) ==
    IF n < 0 THEN "-" \o NumberToString(0 - n, radix)
    ELSE IF n < radix THEN Digits[n + 1]
    ELSE NumberToString(n \div radix, radix) \o Digits[(n % radix) + 1]

----------------------------------------------------------------------------
(* The bounds of the model *)

\* how many different values Math.random() yields for a color
NumColors == 2

\* how many events the environment chooses freely after its plan
MaxSteps == 4

\* the largest distance outside the grid at which SpecProbe probes
ProbeMargin == 2

\* the game overs that are counted
MaxGames == 1

\* how many non-empty boards SpecProbe probes, besides the empty one
NumProbeBoards == 2

----------------------------------------------------------------------------
(* The completion of an expression: a value, or an uncaught TypeError *)

Return(v) == [threw |-> FALSE, value |-> v]

Throw == [threw |-> TRUE, value |-> FALSE]

\* the element of a set of one element.  The statements of a function body
\* that use the value of an earlier statement are written as the set of
\* results for that value, so that the value is computed once
The(S) == CHOOSE out \in S : TRUE

(* The program's state as one record, so that a function of the program is *)
(* an operator from state to state.                                        *)
Game ==
    [board |-> board, score |-> score, currentPiece |-> currentPiece,
     currentX |-> currentX, currentY |-> currentY,
     textContent |-> textContent, alerts |-> <<>>, threw |-> FALSE]

----------------------------------------------------------------------------
(* createBoard: board[row] = [] and board[row][col] = EMPTY for every row  *)
(* below ROWS; rows the array already has beyond ROWS are kept.            *)

emptyRow == [col \in 1..COLS |-> EMPTY]

createBoard(b) ==
    [row \in 1..(IF Len(b) > ROWS THEN Len(b) ELSE ROWS) |->
        IF row <= ROWS THEN emptyRow ELSE b[row]]

(* newPiece: rp is Math.floor(Math.random() * PIECES.length) and rc is     *)
(* Math.floor(Math.random() * 16777215).                                   *)

isArray0(literal) == literal.depth = 2

pieceShape(randomPiece) ==
    IF isArray0(randomPiece) THEN randomPiece.cells ELSE <<randomPiece.cells>>

pieceColor(rc) == Str("#" \o NumberToString(rc, 16))

\* a faulty variant: the mask's left edge, not its middle, at the centre
spawnXUncentred(shape) == COLS \div 2

spawnX(shape) == (COLS \div 2) - (Len(shape[1]) \div 2)

\* a faulty variant: the piece spawned one row above the board
newPieceAbove(g, rp, rc) ==
    LET shape == pieceShape(PIECES[rp + 1])
    IN  [g EXCEPT !.currentPiece = [shape |-> shape, color |-> pieceColor(rc)],
                  !.currentX = spawnX(shape),
                  !.currentY = 0 - 1]

newPiece(g, rp, rc) ==
    LET shape == pieceShape(PIECES[rp + 1])
    IN  [g EXCEPT !.currentPiece = [shape |-> shape, color |-> pieceColor(rc)],
                  !.currentX = spawnX(shape),
                  !.currentY = 0]

----------------------------------------------------------------------------
(* isValidMove.  Array.prototype.every stops at the first cell whose test  *)
(* is false, so the cells are tested in row-major order.  board[newY] is   *)
(* undefined when newY is no index of the board, and reading [newX] of     *)
(* undefined throws; row[newX] is undefined when newX is no index of the   *)
(* row, and undefined === EMPTY is false.                                  *)

\* a faulty variant: the column bounds forgotten
inGridNoColumnBound(newX, newY) == newY < ROWS

\* a faulty variant: the row bound newY < ROWS forgotten
inGridNoRowBound(newX, newY) == newX >= 0 /\ newX < COLS

inGrid(newX, newY) == newX >= 0 /\ newX < COLS /\ newY < ROWS

cellValid(value, newX, newY, b) ==
    IF value = 0 THEN Return(TRUE)
    ELSE IF ~inGrid(newX, newY) THEN Return(FALSE)
    ELSE IF newY < 0 \/ newY >= Len(b) THEN Throw
    ELSE IF newX < 0 \/ newX >= Len(b[newY + 1]) THEN Return(FALSE)
    ELSE Return(b[newY + 1][newX + 1] = EMPTY)

RECURSIVE rowEvery(_, _, _, _, _)
rowEvery(row, dx, x, newY, b) ==
    IF dx >= Len(row) THEN Return(TRUE)
    ELSE The({ IF r.threw \/ ~r.value THEN r
               ELSE rowEvery(row, dx + 1, x, newY, b)
               : r \in {cellValid(row[dx + 1], x + dx, newY, b)} })

RECURSIVE shapeEvery(_, _, _, _, _)
shapeEvery(shape, dy, x, y, b) ==
    IF dy >= Len(shape) THEN Return(TRUE)
    ELSE The({ IF r.threw \/ ~r.value THEN r
               ELSE shapeEvery(shape, dy + 1, x, y, b)
               : r \in {rowEvery(shape[dy + 1], 0, x, y + dy, b)} })

isValidMove(x, y, piece, b) == shapeEvery(piece.shape, 0, x, y, b)

\* the indices <<newY, newX>> at which isValidMove(x, y, piece) evaluates
\* board[newY][newX]: those of the occupied cells that pass the three
\* comparisons of line 84, up to the first cell whose test is false
boardReads(x, y, piece, b) ==
    LET shape == piece.shape
        cells == (0..(Len(shape) - 1)) \X (0..(Len(shape[1]) - 1))
        test(d) == cellValid(shape[d[1] + 1][d[2] + 1], x + d[2], y + d[1], b)
        earlier(e, d) == e[1] < d[1] \/ (e[1] = d[1] /\ e[2] < d[2])
        tested(d) ==
            \A e \in cells : earlier(e, d) => (~test(e).threw /\ test(e).value)
    IN  {<<y + d[1], x + d[2]>> : d \in
            {d \in cells : /\ tested(d)
                           /\ shape[d[1] + 1][d[2] + 1] # 0
                           /\ inGrid(x + d[2], y + d[1])}}

----------------------------------------------------------------------------
(* placePiece, lines 91-97: board[currentY + y][currentX + x] = color for  *)
(* every occupied mask cell, in row-major order.  Writing to a row that    *)
(* does not exist throws; writing past the end of a row lengthens it and   *)
(* leaves holes; writing at a negative column adds no element.             *)

\* a faulty variant: the color written one column to the right
setCellShifted(b, r, c, v) ==
    IF r < 0 \/ r >= Len(b) THEN [threw |-> TRUE, board |-> b]
    ELSE IF c + 1 < 0 \/ c + 1 >= Len(b[r + 1]) THEN [threw |-> FALSE, board |-> b]
    ELSE [threw |-> FALSE, board |-> [b EXCEPT ![r + 1][c + 2] = v]]

setCell(b, r, c, v) ==
    IF r < 0 \/ r >= Len(b) THEN [threw |-> TRUE, board |-> b]
    ELSE IF c < 0 THEN [threw |-> FALSE, board |-> b]
    ELSE IF c < Len(b[r + 1]) THEN
        [threw |-> FALSE, board |-> [b EXCEPT ![r + 1][c + 1] = v]]
    ELSE [threw |-> FALSE,
          board |-> [b EXCEPT ![r + 1] =
                      [i \in 1..(c + 1) |->
                          IF i <= Len(b[r + 1]) THEN b[r + 1][i]
                          ELSE IF i = c + 1 THEN v ELSE Undefined]]]

RECURSIVE mergeRow(_, _, _, _, _, _)
mergeRow(b, row, x, r, cx, color) ==
    IF x >= Len(row) THEN [threw |-> FALSE, board |-> b]
    ELSE IF row[x + 1] = 0 THEN mergeRow(b, row, x + 1, r, cx, color)
    ELSE The({ IF w.threw THEN w
               ELSE mergeRow(w.board, row, x + 1, r, cx, color)
               : w \in {setCell(b, r, cx + x, color)} })

RECURSIVE mergeShape(_, _, _, _, _, _)
mergeShape(b, shape, y, cx, cy, color) ==
    IF y >= Len(shape) THEN [threw |-> FALSE, board |-> b]
    ELSE The({ IF w.threw THEN w
               ELSE mergeShape(w.board, shape, y + 1, cx, cy, color)
               : w \in {mergeRow(b, shape[y + 1], 0, cy + y, cx, color)} })

merge(g) ==
    mergeShape(g.board, g.currentPiece.shape, 0, g.currentX, g.currentY,
               g.currentPiece.color)

\* the indices <<currentY + y, currentX + x>> at which lines 91-97 assign:
\* those of the occupied cells in row-major order, up to and including the
\* first whose row is no row of the board (that assignment throws)
boardWrites(g) ==
    LET shape == g.currentPiece.shape
        cells == {d \in (0..(Len(shape) - 1)) \X (0..(Len(shape[1]) - 1)) :
                     shape[d[1] + 1][d[2] + 1] # 0}
        throws(d) == g.currentY + d[1] < 0 \/ g.currentY + d[1] >= Len(g.board)
        earlier(e, d) == e[1] < d[1] \/ (e[1] = d[1] /\ e[2] < d[2])
    IN  {<<g.currentY + d[1], g.currentX + d[2]>> : d \in
            {d \in cells : \A e \in cells : earlier(e, d) => ~throws(e)}}

----------------------------------------------------------------------------
(* clearLines *)

rowFull(row) == \A i \in 1..Len(row) : row[i] # EMPTY

\* board.splice(row, 1)
splice(b, row) == [i \in 1..(Len(b) - 1) |-> IF i <= row THEN b[i] ELSE b[i + 1]]

\* faulty variants: the empty row pushed at the bottom; no row inserted
unshiftAtBottom(b) == b \o <<emptyRow>>

unshiftNothing(b) == b

\* board.unshift(new Array(COLS).fill(EMPTY))
unshift(b) == <<emptyRow>> \o b

\* the for loop of lines 107-113, from index row downwards
RECURSIVE clearLoop(_, _, _)
clearLoop(b, row, linesCleared) ==
    IF row < 0 THEN [threw |-> FALSE, board |-> b, linesCleared |-> linesCleared]
    ELSE IF row >= Len(b) THEN
        [threw |-> TRUE, board |-> b, linesCleared |-> linesCleared]
    ELSE IF rowFull(b[row + 1]) THEN
        clearLoop(unshift(splice(b, row)), row - 1, linesCleared + 1)
    ELSE clearLoop(b, row - 1, linesCleared)

\* scoreElement.textContent = score
scoreText(n) == Str(NumberToString(n, 10))

\* a faulty variant: the points subtracted
addScoreDown(s, linesCleared) == s - linesCleared * 10

addScore(s, linesCleared) == s + linesCleared * 10

clearLines(g) ==
    The({ IF c.threw THEN [g EXCEPT !.board = c.board, !.threw = TRUE]
          ELSE IF c.linesCleared > 0 THEN
              [g EXCEPT !.board = c.board,
                        !.score = addScore(g.score, c.linesCleared),
                        !.textContent =
                            scoreText(addScore(g.score, c.linesCleared))]
          ELSE [g EXCEPT !.board = c.board]
          : c \in {clearLoop(g.board, ROWS - 1, 0)} })

----------------------------------------------------------------------------
(* gameOver: alert() sees the state before the reset *)

\* alert('...'): the state the notice is shown in
notice(g) == [board |-> g.board, score |-> g.score]

\* faulty variants: the score not reset; the notice shown after the reset;
\* the board not rebuilt; the reset ending in an exception
gameOverKeepsScore(g) ==
    [g EXCEPT !.alerts = Append(g.alerts, notice(g)),
              !.board = createBoard(<<>>)]

gameOverAlertsLast(g) ==
    [g EXCEPT !.alerts = Append(g.alerts,
                                [board |-> createBoard(<<>>), score |-> 0]),
              !.board = createBoard(<<>>),
              !.score = 0,
              !.textContent = scoreText(0)]

gameOverKeepsBoard(g) ==
    [g EXCEPT !.alerts = Append(g.alerts, notice(g)),
              !.score = 0,
              !.textContent = scoreText(0)]

gameOverSilent(g) ==
    [g EXCEPT !.alerts = Append(g.alerts, notice(g)),
              !.board = createBoard(<<>>),
              !.score = 0]

gameOverHalts(g) ==
    [g EXCEPT !.alerts = Append(g.alerts, notice(g)),
              !.board = createBoard(<<>>),
              !.score = 0,
              !.textContent = scoreText(0),
              !.threw = TRUE]

gameOver(g) ==
    [g EXCEPT !.alerts = Append(g.alerts, notice(g)),
              !.board = createBoard(<<>>),
              !.score = 0,
              !.textContent = scoreText(0)]

(* placePiece *)
placePiece(g, rp, rc) ==
    The({ IF m.threw THEN [g EXCEPT !.board = m.board, !.threw = TRUE]
          ELSE
          The({ The({ IF c.threw THEN c
                      ELSE
                      The({ The({ IF v.threw THEN [n EXCEPT !.threw = TRUE]
                                  ELSE IF ~v.value THEN gameOver(n)
                                  ELSE n
                                  : v \in {isValidMove(n.currentX, n.currentY,
                                                       n.currentPiece, n.board)} })
                            : n \in {newPiece(c, rp, rc)} })
                      : c \in {clearLines(h)} })
                : h \in {[g EXCEPT !.board = m.board]} })
          : m \in {merge(g)} })

\* a faulty variant: the step down made without the validity check
dropUnchecked(g, rp, rc) == [g EXCEPT !.currentY = g.currentY + 1]

(* drop *)
drop(g, rp, rc) ==
    LET v == isValidMove(g.currentX, g.currentY + 1, g.currentPiece, g.board)
    IN  IF v.threw THEN [g EXCEPT !.threw = TRUE]
        ELSE IF v.value THEN [g EXCEPT !.currentY = g.currentY + 1]
        ELSE placePiece(g, rp, rc)

\* a faulty variant: the move made without the validity check
movePieceUnchecked(g, dx) == [g EXCEPT !.currentX = g.currentX + dx]

(* movePiece *)
movePiece(g, dx) ==
    LET v == isValidMove(g.currentX + dx, g.currentY, g.currentPiece, g.board)
    IN  IF v.threw THEN [g EXCEPT !.threw = TRUE]
        ELSE IF v.value THEN [g EXCEPT !.currentX = g.currentX + dx]
        ELSE g

(* rotatePiece, lines 143-145: row i of the result is column i of the      *)
(* shape (shape.map(row => row[i])), reversed.                             *)
column(shape, i) == [k \in 1..Len(shape) |-> shape[k][i]]

\* a faulty variant: the column not reversed (a transposition)
reverseForgotten(a) == a

reverse(a) == [k \in 1..Len(a) |-> a[Len(a) - k + 1]]

rotated(shape) == [i \in 1..Len(shape[1]) |-> reverse(column(shape, i))]

\* a faulty variant: the rotation made without the validity check
rotatePieceUnchecked(g) ==
    [g EXCEPT !.currentPiece.shape = rotated(g.currentPiece.shape)]

rotatePiece(g) ==
    LET r == rotated(g.currentPiece.shape)
        v == isValidMove(g.currentX, g.currentY,
                         [shape |-> r, color |-> g.currentPiece.color], g.board)
    IN  IF v.threw THEN [g EXCEPT !.threw = TRUE]
        ELSE IF v.value THEN [g EXCEPT !.currentPiece.shape = r]
        ELSE g

----------------------------------------------------------------------------
(* The environment: the values Math.random() returns and the order of the  *)
(* timer ticks and key presses.  An event is the handler that runs and the *)
(* two random draws its newPiece() would make (unused when it spawns       *)
(* nothing).                                                               *)

PieceDraws == 0..(Len(PIECES) - 1)

colorDraw(i) == ((i - 1) * 5592405) % 16777215

ColorDraws == {colorDraw(i) : i \in 1..NumColors}

Ev(e, rp, rc) == [e |-> e, rp |-> rp, rc |-> rc]

Rep(n, ev) == [i \in 1..n |-> ev]

\* n timer ticks that move the piece down
G(n) == Rep(n, Ev("gameLoop", 0, 0))

\* the timer tick that places the piece and spawns piece rp with color rc
P(rp, rc) == <<Ev("gameLoop", rp, rc)>>

L(n) == Rep(n, Ev("ArrowLeft", 0, 0))

R(n) == Rep(n, Ev("ArrowRight", 0, 0))

U(n) == Rep(n, Ev("ArrowUp", 0, 0))

(* A plan is the first piece and the events the environment produces       *)
(* before it chooses freely.  Every plan is an execution of the program    *)
(* from its initial state; the plans lead to the boards that a few free    *)
(* events cannot build.                                                    *)

\* no plan: the first piece and every event are free
PlanFree == [first |-> <<0, 0>>, keys |-> <<>>]

\* I, I on the bottom row (columns 0-7), a vertical I in column 8, and a
\* vertical I in column 9 on its way down, at row 13
PlanLine ==
    [first |-> <<0, 0>>,
     keys |-> G(1) \o L(3) \o G(18) \o P(0, colorDraw(2))
              \o R(1) \o G(19) \o P(0, 0)
              \o U(1) \o R(5) \o G(16) \o P(0, colorDraw(2))
              \o U(1) \o R(6) \o G(13)]

\* four O side by side on rows 18-19 (columns 0-7) and a fifth O in
\* columns 8-9 on its way down, at row 15
PlanTwoLines ==
    [first |-> <<2, 0>>,
     keys |-> G(1) \o L(4) \o G(17) \o P(2, colorDraw(2))
              \o L(2) \o G(18) \o P(2, 0)
              \o G(18) \o P(2, colorDraw(2))
              \o R(2) \o G(18) \o P(2, 0)
              \o R(4) \o G(15)]

\* a cleared line (I, I, O on the bottom row), then four vertical I in
\* column 4 (rows 4-19), an I across it on row 3, and an O just spawned
PlanOver ==
    [first |-> <<0, 0>>,
     keys |-> G(1) \o L(3) \o G(18) \o P(0, colorDraw(2))
              \o R(1) \o G(19) \o P(2, 0)
              \o R(4) \o G(18) \o P(0, colorDraw(2))
              \o U(1) \o R(1) \o G(16) \o P(0, 0)
              \o U(1) \o R(1) \o G(12) \o P(0, colorDraw(2))
              \o U(1) \o R(1) \o G(8) \o P(0, 0)
              \o U(1) \o R(1) \o G(4) \o P(0, colorDraw(2))
              \o G(3) \o P(2, 0)]

\* a stack of nine O in columns 4-5 up to row 1, rows 18 and 19 full but for
\* column 2, then a vertical I in column 2: one of the two full rows is
\* cleared, the stack comes down to row 2, and an O is spawned on top of it
PlanClearOver ==
    [first |-> <<0, 0>>,
     keys |-> G(1) \o R(1) \o G(18) \o P(2, colorDraw(2))
              \o R(4) \o G(18) \o P(2, 0)
              \o R(2) \o G(17) \o P(2, colorDraw(2))
              \o L(4) \o G(18) \o P(0, 0)
              \o U(1) \o G(16) \o P(2, colorDraw(2))
              \o G(17) \o P(2, 0) \o G(15) \o P(2, colorDraw(2))
              \o G(13) \o P(2, 0) \o G(11) \o P(2, colorDraw(2))
              \o G(9) \o P(2, 0) \o G(7) \o P(2, colorDraw(2))
              \o G(5) \o P(2, 0) \o G(3) \o P(2, colorDraw(2))
              \o G(1) \o P(0, 0)
              \o U(1) \o L(1) \o G(16) \o P(2, colorDraw(2))]

\* the first I carried down to row 18 of the empty board
PlanLow == [first |-> <<0, 0>>, keys |-> G(18)]

Plans == <<PlanFree, PlanLine, PlanTwoLines, PlanOver, PlanClearOver, PlanLow>>

Planned == Plans[plan].keys

Allowed(ev) ==
    IF pos < Len(Planned) THEN Planned[pos + 1] = ev
    ELSE pos < Len(Planned) + MaxSteps

----------------------------------------------------------------------------
(* The state machine *)

NoProbe ==
    [op |-> "none", result |-> Return(FALSE), origin |-> <<>>, prev |-> <<>>,
     turns |-> 0]

\* lines 10-13 and 170-171: createBoard(); newPiece();
Loaded(rp, rc) ==
    newPiece([board |-> createBoard(<<>>), score |-> 0,
              currentPiece |-> [shape |-> <<>>, color |-> Undefined],
              currentX |-> 0, currentY |-> 0,
              textContent |-> Undefined, alerts |-> <<>>, threw |-> FALSE],
             rp, rc)

Init ==
    \E pl \in 1..Len(Plans), rp \in PieceDraws, rc \in ColorDraws :
        /\ Plans[pl].keys # <<>> => <<rp, rc>> = Plans[pl].first
        /\ plan = pl
        /\ pos = 0
        /\ board = Loaded(rp, rc).board
        /\ score = Loaded(rp, rc).score
        /\ currentPiece = Loaded(rp, rc).currentPiece
        /\ currentX = Loaded(rp, rc).currentX
        /\ currentY = Loaded(rp, rc).currentY
        /\ textContent = Loaded(rp, rc).textContent
        /\ alerts = <<>>
        /\ threw = FALSE
        /\ loop = "main"
        /\ event = "load"
        /\ games = 0
        /\ probe = NoProbe

\* the state a handler leaves
Leaves(n, e) ==
    /\ board' = n.board
    /\ score' = n.score
    /\ currentPiece' = n.currentPiece
    /\ currentX' = n.currentX
    /\ currentY' = n.currentY
    /\ textContent' = n.textContent
    /\ alerts' = n.alerts
    /\ threw' = n.threw
    /\ event' = e
    /\ games' = IF n.alerts # <<>> /\ games < MaxGames THEN games + 1 ELSE games
    /\ UNCHANGED <<plan, probe>>

\* a handler run that the plan counts
Commit(n, e) == Leaves(n, e) /\ pos' = pos + 1

\* drop() takes its else branch: isValidMove returned false.  drop() calls
\* Math.random() only there (placePiece, newPiece); an event that draws
\* nothing is written with the draws 0, 0
Places ==
    LET v == isValidMove(currentX, currentY + 1, currentPiece, board)
    IN  ~v.threw /\ ~v.value

Drawn(rp, rc) == Places \/ (rp = 0 /\ rc = 0)

\* gameLoop: drop(); draw(); setTimeout(gameLoop, 1000)
gameLoop ==
    /\ loop \in {"main", "timer"}
    /\ \E rp \in PieceDraws, rc \in ColorDraws :
        /\ Allowed(Ev("gameLoop", rp, rc))
        /\ Drawn(rp, rc)
        /\ LET n == drop(Game, rp, rc)
           IN  /\ Commit(n, "gameLoop")
               /\ loop' = IF n.threw THEN "dead" ELSE "timer"

\* the keydown listener; no key event is delivered before the script has run
keyArrowLeft ==
    /\ loop # "main"
    /\ Allowed(Ev("ArrowLeft", 0, 0))
    /\ Commit(movePiece(Game, -1), "ArrowLeft")
    /\ UNCHANGED loop

keyArrowRight ==
    /\ loop # "main"
    /\ Allowed(Ev("ArrowRight", 0, 0))
    /\ Commit(movePiece(Game, 1), "ArrowRight")
    /\ UNCHANGED loop

keyArrowDown ==
    /\ loop # "main"
    /\ \E rp \in PieceDraws, rc \in ColorDraws :
        /\ Allowed(Ev("ArrowDown", rp, rc))
        /\ Drawn(rp, rc)
        /\ Commit(drop(Game, rp, rc), "ArrowDown")
    /\ UNCHANGED loop

keyArrowUp ==
    /\ loop # "main"
    /\ Allowed(Ev("ArrowUp", 0, 0))
    /\ Commit(rotatePiece(Game), "ArrowUp")
    /\ UNCHANGED loop

\* any other key: only draw()
keyOther ==
    /\ loop # "main"
    /\ Allowed(Ev("other", 0, 0))
    /\ Commit(Game, "other")
    /\ UNCHANGED loop

Next ==
    \/ gameLoop
    \/ keyArrowLeft
    \/ keyArrowRight
    \/ keyArrowDown
    \/ keyArrowUp
    \/ keyOther

Spec == Init /\ [][Next]_vars

----------------------------------------------------------------------------
(* Direct applications of isValidMove and of the rotation, on inputs drawn *)
(* from bounded sets: any of the seven masks in any orientation, any       *)
(* position up to ProbeMargin outside the grid, the empty board and        *)
(* patterned boards.                                                       *)

probeBoard(k) ==
    [row \in 1..ROWS |-> [col \in 1..COLS |->
        IF k > 0 /\ ((row - 1) * COLS + (col - 1)) % (k + 1) = 0
        THEN pieceColor(0) ELSE EMPTY]]

InitProbe ==
    \E k \in 0..NumProbeBoards, rp \in PieceDraws,
       x \in (0 - ProbeMargin)..(COLS + ProbeMargin),
       y \in (0 - ProbeMargin)..(ROWS + ProbeMargin) :
        /\ board = probeBoard(k)
        /\ currentPiece = Loaded(rp, 0).currentPiece
        /\ currentX = x
        /\ currentY = y
        /\ probe = [NoProbe EXCEPT !.origin = Loaded(rp, 0).currentPiece.shape]
        /\ score = 0
        /\ textContent = Undefined
        /\ alerts = <<>>
        /\ threw = FALSE
        /\ loop = "main"
        /\ event = "load"
        /\ plan = 1
        /\ pos = 0
        /\ games = 0

\* isValidMove(currentX, currentY, currentPiece)
probeIsValidMove ==
    /\ probe' = [probe EXCEPT
                   !.op = "isValidMove",
                   !.result = isValidMove(currentX, currentY, currentPiece, board)]
    /\ UNCHANGED <<board, score, currentPiece, currentX, currentY, textContent,
                   alerts, threw, loop, event, plan, pos, games>>

\* currentPiece.shape = rotated, without the validity check
probeRotated ==
    /\ currentPiece' = [currentPiece EXCEPT !.shape = rotated(currentPiece.shape)]
    /\ probe' = [probe EXCEPT !.op = "rotated",
                              !.result = Return(FALSE),
                              !.prev = currentPiece.shape,
                              !.turns = (probe.turns + 1) % 4]
    /\ UNCHANGED <<board, score, currentX, currentY, textContent,
                   alerts, threw, loop, event, plan, pos, games>>

NextProbe == probeIsValidMove \/ probeRotated

SpecProbe == InitProbe /\ [][NextProbe]_vars

----------------------------------------------------------------------------
(* The game under its timer.  The environment plays one of two plans, then *)
(* any key and any values of Math.random(), any number of times, until the *)
(* piece is placed; there the run ends.  setTimeout fires every timer that *)
(* is armed, which is the fairness of tick.                                *)

\* the first piece, whichever it is, falls to row ROWS - 2
PlanFall == [first |-> <<>>, keys |-> G(ROWS - 2)]

\* the board of PlanOver; the O comes to rest on the stack and a T is
\* spawned into it: the game is over, and the T falls on the new board
PlanOverFall ==
    [first |-> <<0, 0>>,
     keys |-> PlanOver.keys \o G(1) \o P(1, 0) \o G(ROWS - 3)]

LivePlans == <<PlanFall, PlanOverFall>>

LivePlanned == LivePlans[plan].keys

InitLive ==
    \E pl \in 1..Len(LivePlans), rp \in PieceDraws, rc \in ColorDraws :
        /\ LivePlans[pl].first \in {<<>>, <<rp, rc>>}
        /\ plan = pl
        /\ pos = 0
        /\ board = Loaded(rp, rc).board
        /\ score = Loaded(rp, rc).score
        /\ currentPiece = Loaded(rp, rc).currentPiece
        /\ currentX = Loaded(rp, rc).currentX
        /\ currentY = Loaded(rp, rc).currentY
        /\ textContent = Loaded(rp, rc).textContent
        /\ alerts = <<>>
        /\ threw = FALSE
        /\ loop = "main"
        /\ event = "load"
        /\ games = 0
        /\ probe = NoProbe

\* the plan is through and the run goes on
LiveFree == pos = Len(LivePlanned)

\* the event the plan has next, then any event until the run ends
LiveAllowed(ev) ==
    IF pos < Len(LivePlanned) THEN LivePlanned[pos + 1] = ev ELSE LiveFree

\* the plan counts its events; after it, the placement that ends the run is
\* counted
LiveCounted(placed) ==
    pos' = IF pos < Len(LivePlanned) \/ placed THEN pos + 1 ELSE pos

\* gameLoop: drop(); draw(); setTimeout(gameLoop, 1000).  The piece that
\* drop() leaves is the piece it found or the piece drawn; said before the
\* drop is computed, it tells the draws of a step without computing the
\* drop for every pair of draws
tick ==
    /\ loop \in {"main", "timer"}
    /\ \E placed \in {Places}, rp \in PieceDraws, rc \in ColorDraws :
        /\ LiveAllowed(Ev("gameLoop", rp, rc))
        /\ placed \/ (rp = 0 /\ rc = 0)
        /\ LiveCounted(placed)
        /\ \E g \in {Game} :
               /\ currentPiece' \in {g.currentPiece,
                                      newPiece(g, rp, rc).currentPiece}
               /\ \E n \in {drop(g, rp, rc)} :
                      /\ Leaves(n, "gameLoop")
                      /\ loop' = IF n.threw THEN "dead" ELSE "timer"

pressLeft ==
    /\ loop # "main"
    /\ LiveAllowed(Ev("ArrowLeft", 0, 0))
    /\ Leaves(movePiece(Game, -1), "ArrowLeft")
    /\ LiveCounted(FALSE)
    /\ UNCHANGED loop

pressRight ==
    /\ loop # "main"
    /\ LiveAllowed(Ev("ArrowRight", 0, 0))
    /\ Leaves(movePiece(Game, 1), "ArrowRight")
    /\ LiveCounted(FALSE)
    /\ UNCHANGED loop

pressUp ==
    /\ loop # "main"
    /\ LiveAllowed(Ev("ArrowUp", 0, 0))
    /\ Leaves(rotatePiece(Game), "ArrowUp")
    /\ LiveCounted(FALSE)
    /\ UNCHANGED loop

pressDown ==
    /\ loop # "main"
    /\ \E placed \in {Places}, rp \in PieceDraws, rc \in ColorDraws :
        /\ LiveAllowed(Ev("ArrowDown", rp, rc))
        /\ placed \/ (rp = 0 /\ rc = 0)
        /\ LiveCounted(placed)
        /\ \E g \in {Game} : \E n \in {drop(g, rp, rc)} :
               Leaves(n, "ArrowDown")
    /\ UNCHANGED loop

pressOther ==
    /\ loop # "main"
    /\ LiveAllowed(Ev("other", 0, 0))
    /\ Leaves(Game, "other")
    /\ LiveCounted(FALSE)
    /\ UNCHANGED loop

NextLive ==
    \/ tick
    \/ pressLeft
    \/ pressRight
    \/ pressUp
    \/ pressDown
    \/ pressOther

SpecLive == InitLive /\ [][NextLive]_vars /\ WF_vars(tick)

----------------------------------------------------------------------------
(* Vocabulary of the properties, stated on the grid and not through the    *)
(* program's functions.  Rows and columns are the program's indices, from  *)
(* 0.                                                                      *)

Rows == 0..(ROWS - 1)

Cols == 0..(COLS - 1)

Cell(b, r, c) == b[r + 1][c + 1]

\* the occupied mask cells <<dy, dx>> of a shape
MaskCells(shape) ==
    {d \in (0..(Len(shape) - 1)) \X (0..(Len(shape[1]) - 1)) :
        shape[d[1] + 1][d[2] + 1] # 0}

\* the grid cells <<row, column>> under a shape at (x, y)
Under(shape, x, y) == {<<y + d[1], x + d[2]>> : d \in MaskCells(shape)}

\* the shape at (x, y) lies inside the grid on empty cells of b
Fits(shape, x, y, b) ==
    \A q \in Under(shape, x, y) :
        q[1] \in Rows /\ q[2] \in Cols /\ Cell(b, q[1], q[2]) = EMPTY

FullRow(b, r) == \A c \in Cols : Cell(b, r, c) # EMPTY

FullRows(b) == {r \in Rows : FullRow(b, r)}

AllEmpty(b) == \A r \in Rows : \A c \in Cols : Cell(b, r, c) = EMPTY

\* the board with the current piece's cells set to its color
Merged ==
    [r \in 1..ROWS |-> [c \in 1..COLS |->
        IF <<r - 1, c - 1>> \in Under(currentPiece.shape, currentX, currentY)
        THEN currentPiece.color ELSE board[r][c]]]

\* this step is a handler run
Handled == pos' = pos + 1

\* this step is a drop() that places the piece
Placement ==
    /\ Handled
    /\ event' \in {"gameLoop", "ArrowDown"}
    /\ ~Fits(currentPiece.shape, currentX, currentY + 1, board)

\* this step is a placement that ends in game over
Over == Placement /\ alerts' # <<>>

----------------------------------------------------------------------------
(* C1: a placement that leaves exactly k >= 1 full rows after the merge    *)
(* adds exactly 10 * k to the score (seen in the placements that do not    *)
(* end in game over, which resets it), also when the rows are adjacent.    *)
C1_ScoreTenPerFullRow ==
    [][(Placement /\ ~Over /\ FullRows(Merged) # {})
          => score' = score + 10 * Cardinality(FullRows(Merged))]_vars

(* C2: after every handler run no row of the board is full.                *)
C2_NoFullRowRemains == FullRows(board) = {}

(* C3: a placement that makes exactly one row r full and does not end in   *)
(* game over leaves row 0 empty, rows 1..r equal to rows 0..r-1 of the     *)
(* merged board, the rows below r as merged, and adds 10 to the score.     *)
C3_ShiftDown ==
    [][(Placement /\ ~Over /\ Cardinality(FullRows(Merged)) = 1)
          => LET r == CHOOSE f \in Rows : FullRow(Merged, f)
             IN  /\ Len(board') = ROWS
                 /\ \A c \in Cols : Cell(board', 0, c) = EMPTY
                 /\ \A i \in 1..r : board'[i + 1] = Merged[i]
                 /\ \A i \in (r + 1)..(ROWS - 1) : board'[i + 1] = Merged[i + 1]
                 /\ score' = score + 10]_vars

\* the spec's example has happened: row 19 was full in columns 0-8, the
\* vertical I of column 9 landed on rows 16-19, and row 19 was cleared
C3_Witness ==
    /\ plan = 2
    /\ event \in {"gameLoop", "ArrowDown"}
    /\ currentY = 0
    /\ score = 10
    /\ \A c \in Cols : Cell(board, 0, c) = EMPTY
    /\ \A c \in Cols : Cell(board, 19, c) # EMPTY <=> c \in {8, 9}
    /\ \A c \in Cols : Cell(board, 17, c) # EMPTY <=> c \in {8, 9}
    /\ AllEmpty([board EXCEPT ![18] = emptyRow, ![19] = emptyRow, ![20] = emptyRow])

(* C4: a placement whose freshly spawned piece does not fit the board left *)
(* by the merge and the line clear ends with an empty board and score 0;   *)
(* a handler run that places no piece leaves board and score as they were. *)
C4_GameOverResets ==
    [][/\ Placement =>
            LET seen == IF alerts' = <<>> THEN board' ELSE alerts'[1].board
            IN  ~Fits(currentPiece'.shape, currentX', currentY', seen)
                    => (AllEmpty(board') /\ score' = 0)
       /\ (Handled /\ ~Placement) =>
            (board' = board /\ score' = score /\ alerts' = <<>>)]_vars

\* a game over has just reset a board that held cells and a score of 10
C4_Witness ==
    /\ alerts # <<>>
    /\ ~AllEmpty(alerts[1].board)
    /\ ~Fits(currentPiece.shape, currentX, currentY, alerts[1].board)
    /\ AllEmpty(board)
    /\ score = 0
    /\ textContent = scoreText(0)
    /\ plan = 4

----------------------------------------------------------------------------
(* C5: for y >= 0, isValidMove is false when an occupied cell falls in a   *)
(* column outside [0, COLS) or a row >= ROWS, and otherwise true exactly   *)
(* when every cell under the piece is empty.                               *)
C5_IsValidMove ==
    (probe.op = "isValidMove" /\ currentY >= 0) =>
        LET under == Under(currentPiece.shape, currentX, currentY)
        IN  IF \E q \in under : q[2] \notin Cols \/ q[1] >= ROWS
            THEN probe.result = Return(FALSE)
            ELSE probe.result =
                    Return(\A q \in under : Cell(board, q[1], q[2]) = EMPTY)

\* isValidMove has answered false for a piece at y >= 0 whose only fault is
\* a cell in column COLS, on the empty board
C5_Witness ==
    /\ probe.op = "isValidMove"
    /\ currentY >= 0
    /\ AllEmpty(board)
    /\ \E q \in Under(currentPiece.shape, currentX, currentY) : q[2] = COLS
    /\ \A q \in Under(currentPiece.shape, currentX, currentY) :
        q[1] \in Rows /\ q[2] \in Cols \cup {COLS}
    /\ probe.result = Return(FALSE)

----------------------------------------------------------------------------
(* C7: movePiece(dx), dx = -1 or 1, changes nothing when a cell of the     *)
(* piece would land in column -1 or COLS or on an occupied cell, and       *)
(* otherwise adds dx to currentX and changes nothing else.                 *)
C7_MovePiece ==
    [][(Handled /\ event' \in {"ArrowLeft", "ArrowRight"}) =>
          LET dx == IF event' = "ArrowLeft" THEN 0 - 1 ELSE 1
              target == Under(currentPiece.shape, currentX + dx, currentY)
              rejected ==
                  \E q \in target :
                      \/ q[2] \in {0 - 1, COLS}
                      \/ (q[2] \in Cols /\ q[1] \in Rows
                            /\ Cell(board, q[1], q[2]) # EMPTY)
          IN  /\ currentX' = IF rejected THEN currentX ELSE currentX + dx
              /\ UNCHANGED <<currentY, currentPiece, board, score>>]_vars

\* a move to the left was rejected: the piece is still against the right
\* wall after ArrowLeft, so the cell to its left is occupied
C7_Witness ==
    /\ event = "ArrowLeft"
    /\ \E q \in Under(currentPiece.shape, currentX, currentY) : q[2] = COLS - 1
    /\ ~Fits(currentPiece.shape, currentX - 1, currentY, board)
    /\ Fits(currentPiece.shape, currentX, currentY, board)

----------------------------------------------------------------------------
(* C8: the rotation turns an r x c mask into the c x r mask with           *)
(* rotated[i][j] = mask[r-1-j][i] (the 1x4 I becomes 4x1), and four        *)
(* rotations of a catalog mask give the mask back.                         *)
C8_RotationClockwise ==
    probe.op = "rotated" =>
        LET mask == probe.prev
            now == currentPiece.shape
            r == Len(mask)
            c == Len(mask[1])
        IN  /\ Len(now) = c
            /\ \A i \in 0..(c - 1) :
                /\ Len(now[i + 1]) = r
                /\ \A j \in 0..(r - 1) : now[i + 1][j + 1] = mask[r - 1 - j + 1][i + 1]
            /\ mask = <<PIECES[1].cells>> => now = << <<1>>, <<1>>, <<1>>, <<1>> >>
            /\ probe.turns = 0 => now = probe.origin

\* the L mask has been rotated four times
C8_Witness ==
    /\ probe.op = "rotated"
    /\ probe.turns = 0
    /\ probe.origin = PIECES[6].cells
    /\ probe.prev # probe.origin

----------------------------------------------------------------------------
(* C9: the board always has ROWS rows of COLS cells, and every cell is     *)
(* EMPTY or a color of a piece, which is never EMPTY.                      *)
C9_BoardShape ==
    /\ Len(board) = ROWS
    /\ \A r \in 1..ROWS :
        /\ Len(board[r]) = COLS
        /\ \A c \in 1..COLS :
            \/ board[r][c] = EMPTY
            \/ /\ board[r][c] \in {pieceColor(rc) : rc \in ColorDraws}
               /\ board[r][c].type = "string"

\* a line has been cleared from the board of PlanTwoLines and cells remain
C9_Witness ==
    /\ plan = 3
    /\ score > 0
    /\ \E r \in Rows : \E c \in Cols : Cell(board, r, c) # EMPTY
    /\ \A c \in Cols : Cell(board, 0, c) = EMPTY

----------------------------------------------------------------------------
(* C10: the score is a natural number; a handler run raises it only in a   *)
(* placement with a full row after the merge, lowers it only to 0 and only *)
(* in a placement that ends in game over, and leaves it alone when it      *)
(* places no piece.                                                        *)
C10_Score ==
    /\ [](score \in Nat)
    /\ [][/\ score' > score => (Placement /\ FullRows(Merged) # {})
          /\ score' < score => (Over /\ score' = 0)
          /\ (Handled /\ ~Placement) => score' = score]_vars

\* a rotation has run while the score was 10
C10_Witness ==
    /\ score = 10
    /\ event = "ArrowUp"
    /\ plan = 4

----------------------------------------------------------------------------
(* C11: a placement shows the game-over notice once when its freshly       *)
(* spawned piece does not fit and never when it fits; the notice sees the  *)
(* board and the score before the reset (the board still holds the cells   *)
(* the piece collides with); no other handler run shows it.                *)
C11_NoticeOnceBeforeReset ==
    [][Handled =>
        /\ Len(alerts') <= 1
        /\ alerts' # <<>> => Placement
        /\ Placement =>
            LET seen == IF alerts' = <<>> THEN board' ELSE alerts'[1].board
            IN  /\ Len(alerts') = 1 <=>
                    ~Fits(currentPiece'.shape, currentX', currentY', seen)
                /\ FullRows(Merged) = {} => seen = Merged
                /\ alerts' # <<>> =>
                    /\ alerts'[1].score >= score
                    /\ FullRows(Merged) = {} => alerts'[1].score = score
                    /\ \E q \in Under(currentPiece'.shape, currentX', currentY') :
                        Cell(alerts'[1].board, q[1], q[2]) # EMPTY]_vars

\* one notice has been shown, with the score still 10 and the O of rows
\* 1-2 on the board, under the spawned piece
C11_Witness ==
    /\ Len(alerts) = 1
    /\ alerts[1].score = 10
    /\ Cell(alerts[1].board, 1, 4) # EMPTY
    /\ Cell(alerts[1].board, 2, 5) # EMPTY
    /\ \E q \in Under(currentPiece.shape, currentX, currentY) : q = <<1, 5>>
    /\ event = "gameLoop"

----------------------------------------------------------------------------
(* C12: a handler run that changes the score leaves the new score in the   *)
(* score display, and the display is written with nothing else.            *)
C12_ScoreDisplayed ==
    [][Handled =>
        /\ score' # score =>
            (textContent'.type = "string"
                /\ textContent'.str = NumberToString(score', 10))
        /\ textContent' # textContent =>
            textContent'.str = NumberToString(score', 10)]_vars

\* a placement has cleared a line (the score went from 10 to 20) and ended
\* in game over: the score is 0 and the display shows "0"
C12_Witness ==
    /\ alerts # <<>>
    /\ alerts[1].score = 20
    /\ score = 0
    /\ textContent = Str("0")

----------------------------------------------------------------------------
(* C13: drop(), from the timer tick or the soft-drop key: when the piece   *)
(* fits one row lower, currentY grows by 1 and currentX, the piece, the    *)
(* board and the score are unchanged; otherwise, and only then, the piece  *)
(* is placed where it is: merged into the board (the board the notice or   *)
(* the next handler sees is the merged one when no row is full, and the    *)
(* score has grown when one is) and a new piece is spawned at row 0.       *)
C13_GravityStep ==
    [][(Handled /\ event' \in {"gameLoop", "ArrowDown"}) =>
          IF Fits(currentPiece.shape, currentX, currentY + 1, board)
          THEN /\ currentY' = currentY + 1
               /\ UNCHANGED <<currentX, currentPiece, board, score>>
               /\ alerts' = <<>>
          ELSE LET seen == IF alerts' = <<>> THEN [board |-> board', score |-> score']
                           ELSE alerts'[1]
               IN  /\ currentY' = 0
                   /\ \A q \in Under(currentPiece.shape, currentX, currentY) :
                         Cell(Merged, q[1], q[2]) = currentPiece.color
                   /\ FullRows(Merged) = {} =>
                         seen = [board |-> Merged, score |-> score]
                   /\ FullRows(Merged) # {} =>
                         seen.board # Merged /\ seen.score > score]_vars

\* a soft drop has placed the piece: after ArrowDown a new piece is at row 0
\* over a board that holds cells
C13_Witness ==
    /\ event = "ArrowDown"
    /\ currentY = 0
    /\ alerts = <<>>
    /\ ~AllEmpty(board)

----------------------------------------------------------------------------
\* the clockwise quarter turn of an r x c mask: the c x r mask whose cell
\* (i, j) is the cell (r-1-j, i) of the mask
Clockwise(shape) ==
    [i \in 1..Len(shape[1]) |-> [j \in 1..Len(shape) |->
        shape[Len(shape) - j + 1][i]]]

(* C14: rotatePiece leaves currentX, currentY, the color, the board and    *)
(* the score unchanged; the mask becomes its clockwise rotation when the   *)
(* rotated mask fits at the current position and stays as it is otherwise. *)
C14_RotatePiece ==
    [][(Handled /\ event' = "ArrowUp") =>
          LET turned == Clockwise(currentPiece.shape)
          IN  /\ UNCHANGED <<currentX, currentY, board, score>>
              /\ currentPiece'.color = currentPiece.color
              /\ currentPiece'.shape =
                    IF Fits(turned, currentX, currentY, board)
                    THEN turned ELSE currentPiece.shape]_vars

\* a rotation was refused at the right wall: after ArrowUp the piece is an
\* upright I in the last column, whose rotation would leave the grid
C14_Witness ==
    /\ event = "ArrowUp"
    /\ currentX = COLS - 1
    /\ Len(currentPiece.shape) = 4
    /\ Fits(currentPiece.shape, currentX, currentY, board)
    /\ ~Fits(Clockwise(currentPiece.shape), currentX, currentY, board)

----------------------------------------------------------------------------
\* the seven masks of the catalog, each a sequence of rows
Catalog ==
    { << <<1, 1, 1, 1>> >>,
      << <<1, 1, 1>>, <<0, 1, 0>> >>,
      << <<1, 1>>, <<1, 1>> >>,
      << <<1, 1, 0>>, <<0, 1, 1>> >>,
      << <<0, 1, 1>>, <<1, 1, 0>> >>,
      << <<1, 0, 0>>, <<1, 1, 1>> >>,
      << <<0, 0, 1>>, <<1, 1, 1>> >> }

\* the current piece is as a spawn leaves it
Spawned ==
    /\ currentPiece.shape \in Catalog
    /\ currentY = 0
    /\ currentX = (COLS \div 2) - (Len(currentPiece.shape[1]) \div 2)
    /\ currentX = IF currentPiece.shape = << <<1, 1, 1, 1>> >> THEN 3 ELSE 4

(* C15: at game start and after every placement the current piece is one   *)
(* of the seven catalog masks, unrotated (the I as one row of four), at    *)
(* row 0 and column floor(COLS/2) - floor(width/2): 3 for the I, 4 for the *)
(* others, whatever the board and the previous piece are.                  *)
C15_Spawn ==
    /\ [](event = "load" => Spawned)
    /\ [][Placement => Spawned']_vars

\* a three-wide piece has been spawned at column 4 after a placement
C15_Witness ==
    /\ event \in {"gameLoop", "ArrowDown"}
    /\ Spawned
    /\ Len(currentPiece.shape[1]) = 3
    /\ ~AllEmpty(board)

----------------------------------------------------------------------------
\* the board indices the handler of this step reads in its validity checks
\* and writes in its merge
Accessed ==
    LET turned == [shape |-> rotated(currentPiece.shape),
                   color |-> currentPiece.color]
        seen == IF alerts' = <<>> THEN board' ELSE alerts'[1].board
    IN  CASE event' \in {"gameLoop", "ArrowDown"} ->
                boardReads(currentX, currentY + 1, currentPiece, board)
                \cup (IF Places
                      THEN boardWrites(Game)
                           \cup boardReads(currentX', currentY', currentPiece', seen)
                      ELSE {})
          [] event' = "ArrowLeft" ->
                boardReads(currentX - 1, currentY, currentPiece, board)
          [] event' = "ArrowRight" ->
                boardReads(currentX + 1, currentY, currentPiece, board)
          [] event' = "ArrowUp" ->
                boardReads(currentX, currentY, turned, board)
          [] OTHER -> {}

(* C16: in every handler run, every board index read by a validity check   *)
(* or written by a merge is a row in [0, ROWS) and a column in [0, COLS),  *)
(* and the handler raises no error, so the timer loop stays alive.         *)
C16_AccessesInGrid ==
    [][Handled =>
          /\ Accessed \subseteq (Rows \X Cols)
          /\ ~threw'
          /\ loop' # "dead"]_vars

\* a move to the right was checked at the right wall: the first free event
\* after the upright I reached the last column is ArrowRight, the probe of
\* column COLS read nothing and raised nothing
C16_Witness ==
    /\ plan = 2
    /\ pos = Len(Planned) + 1
    /\ event = "ArrowRight"
    /\ currentX = COLS - 1
    /\ boardReads(currentX + 1, currentY, currentPiece, board) = {}
    /\ ~threw

----------------------------------------------------------------------------
(* C17: after the load and after every handler run, in any order of ticks  *)
(* and keys, every occupied cell of the current piece lies in a row in     *)
(* [0, ROWS) and a column in [0, COLS) over an empty board cell; also      *)
(* right after a game-over reset.                                          *)
C17_PieceValid ==
    /\ \A q \in Under(currentPiece.shape, currentX, currentY) :
          /\ q[1] >= 0 /\ q[1] < ROWS
          /\ q[2] >= 0 /\ q[2] < COLS
          /\ board[q[1] + 1][q[2] + 1] = EMPTY
    /\ Under(currentPiece.shape, currentX, currentY) # {}

\* a soft drop has ended in game over: the notice saw cells under the new
\* piece, and the piece now lies over the emptied board
C17_Witness ==
    /\ event = "ArrowDown"
    /\ alerts # <<>>
    /\ ~Fits(currentPiece.shape, currentX, currentY, alerts[1].board)
    /\ AllEmpty(board)
    /\ currentY = 0

----------------------------------------------------------------------------
(* C18: currentY is never negative; a move or a rotation leaves it         *)
(* unchanged, a gravity step that does not place the piece adds exactly 1, *)
(* and it becomes smaller only in a placement, where the new piece starts  *)
(* at 0.                                                                   *)
C18_CurrentY ==
    /\ [](currentY >= 0)
    /\ [][Handled =>
            /\ currentY' = IF Placement THEN 0
                           ELSE IF event' \in {"gameLoop", "ArrowDown"}
                                THEN currentY + 1
                                ELSE currentY
            /\ currentY' < currentY => (Placement /\ currentY' = 0)]_vars

\* a move to the left was made at row 18 and left the piece at row 18
C18_Witness ==
    /\ plan = 6
    /\ pos = Len(Planned) + 1
    /\ event = "ArrowLeft"
    /\ currentX = 2
    /\ currentY = 18

----------------------------------------------------------------------------
\* this step places the current piece (by a tick or by a soft drop)
Placed ==
    /\ event' \in {"gameLoop", "ArrowDown"}
    /\ ~Fits(currentPiece.shape, currentX, currentY + 1, board)

\* the timer is due: the plan has a tick next, or the plan is through
TickDue ==
    \/ pos < Len(LivePlanned) /\ LivePlanned[pos + 1].e = "gameLoop"
    \/ LiveFree

(* C19: the timer loop is never dead and the tick is enabled whenever the  *)
(* timer is due, also right after a game over; a tick either places the    *)
(* piece or takes it one row down, no key takes it up, and the row stays   *)
(* below ROWS, so that a piece is placed by its ROWS-th tick at the latest *)
(* whatever keys are pressed in between; with the timer firing, the piece  *)
(* that falls when the keys become free is placed, which is the one step   *)
(* that is counted then.                                                   *)
C19_Progress ==
    /\ [](loop # "dead" /\ (TickDue => ENABLED tick))
    /\ [](currentY >= 0 /\ currentY < ROWS)
    /\ [][event' = "gameLoop" =>
            IF Placed THEN currentY' = 0 ELSE currentY' = currentY + 1]_vars
    /\ [][event' # "gameLoop" => currentY' >= currentY \/ Placed]_vars
    /\ [][LiveFree => (pos' # pos <=> Placed)]_vars
    /\ LiveFree ~> (pos > Len(LivePlanned))

\* after a game over the timer has gone on, the keys have become free, and
\* the piece of the new game has been placed on the new board
C19_Witness ==
    /\ games > 0
    /\ pos = Len(LivePlanned) + 1
    /\ alerts = <<>>
    /\ ~AllEmpty(board)
    /\ loop = "timer"
    /\ currentY = 0

----------------------------------------------------------------------------
\* the occupied cells <<row, column>> of a board
Occupied(b) == {q \in Rows \X Cols : Cell(b, q[1], q[2]) # EMPTY}

(* C20: when a piece is placed, the merge, before any line is cleared,     *)
(* sets exactly the cells under the occupied mask cells, at (currentY+dy,  *)
(* currentX+dx), to the piece's color: these four cells were empty, every  *)
(* other cell is unchanged, and the board holds four occupied cells more.  *)
C20_MergeFrame ==
    [][Placement =>
          LET under == Under(currentPiece.shape, currentX, currentY)
              m == merge(Game)
              seen == IF alerts' = <<>> THEN board' ELSE alerts'[1].board
          IN  /\ ~m.threw
              /\ Cardinality(under) = 4
              /\ under \subseteq (Rows \X Cols)
              /\ \A q \in under : Cell(board, q[1], q[2]) = EMPTY
              /\ \A q \in under : Cell(m.board, q[1], q[2]) = currentPiece.color
              /\ \A q \in (Rows \X Cols) \ under :
                    Cell(m.board, q[1], q[2]) = Cell(board, q[1], q[2])
              /\ Len(m.board) = ROWS
              /\ \A r \in 1..ROWS : Len(m.board[r]) = COLS
              /\ Cardinality(Occupied(m.board)) = Cardinality(Occupied(board)) + 4
              /\ FullRows(m.board) = {} => seen = m.board]_vars

\* the first piece has been merged at the bottom: the board holds exactly
\* its four cells, in row 19
C20_Witness ==
    /\ plan = 6
    /\ event = "gameLoop"
    /\ currentY = 0
    /\ Occupied(board) = {<<ROWS - 1, c>> : c \in 3..6}

====
